---- MODULE Spec2Model ----
(***************************************************************************)
(* Model of the Dell K2 dock embedded-controller device                    *)
(* (plugins/dell-k2/fu-dell-k2-ec.c): dock-type query, the retried         *)
(* discovery cycle (identity, topology, SKU), the ownership handshake, the *)
(* readiness check, passive update, package commit and the chunked         *)
(* firmware transfer.                                                      *)
(*                                                                         *)
(* The device is driven by one caller at a time: a multi-step operation    *)
(* (setup, reload, firmware transfer) holds `pc` away from "idle" until it *)
(* returns.  `io` is the sequence of transport operations and sleeps of    *)
(* the call in progress (or of the last call), `ret` its result.           *)
(***************************************************************************)
EXTENDS Integers, Sequences, FiniteSets, TLC

VARIABLES
    base_type,        \* self->base_type
    base_sku,         \* self->base_sku
    dock_data,        \* self->dock_data
    dock_info,        \* self->dock_info
    dock_lock_state,  \* self->dock_lock_state
    children,         \* child devices attached with fu_device_add_child
    done_setup,       \* "no" until setup is called, then "ok" or "failed"
    pc,               \* position of the running operation, "idle" when none
    call,             \* the operation in progress / last called, with its arguments
    ret,              \* result of the last operation: return value and GError
    io,               \* transport operations and sleeps issued by `call`
    idx               \* loop counters of the running operation

vars == <<base_type, base_sku, dock_data, dock_info, dock_lock_state, children,
          done_setup, pc, call, ret, io, idx>>

(***************************************************************************)
(* Bounds of the model                                                     *)
(***************************************************************************)
\* longest firmware payload handed to the transfer engine
MaxFwSz == 5
\* scaled-down DELL_K2_EC_DEV_EC_CHUNK_SZ
EcChunkSz == 3
\* scaled-down DELL_K2_EC_DEV_ANY_CHUNK_SZ
AnyChunkSz == 2
\* scaled-down DELL_K2_EC_HID_DATA_PAGE_SZ
PageSz == 4
\* longest firmware payload in the specification of the whole device
ShortFwSz == 1

(***************************************************************************)
(* Protocol constants of fu-dell-k2-common.h / fu-dell-k2-ec-hid.h         *)
(***************************************************************************)
DEV_TYPE_MAIN_EC == 0
DEV_TYPE_PD == 1
DEV_TYPE_USBHUB == 2
DEV_TYPE_MST == 3
DEV_TYPE_TBT == 4
DEV_TYPE_QI == 5
DEV_TYPE_DP_MUX == 6
DEV_TYPE_LAN == 7
DEV_TYPE_FAN == 8
DEV_TYPE_RMM == 9
DEV_TYPE_WTPD == 10

PD_SUBTYPE_TI == 0
PD_INSTANCE_UP5 == 0
PD_INSTANCE_UP15 == 1
PD_INSTANCE_UP17 == 2

TBT_SUBTYPE_TR == 0
TBT_SUBTYPE_GR == 1
TBT_SUBTYPE_BR == 2

BASE_TYPE_K2 == 7

K2_DOCK_SKU_DPALT == 1
K2_DOCK_SKU_TBT4 == 2
K2_DOCK_SKU_TBT5 == 3

RESP_UPDATE_COMPLETE == 1
RESP_SEND_NEXT_CHUNK == 2
RESP_UPDATE_FAILED == 3

\* DELL_K2_EC_DEV_NO_CHUNK_SZ: larger than any payload
NoChunkSz == MaxFwSz + 1

\* devices[20] of FuDellK2DockInfoStructure
MaxDevices == 20
\* sizeof(FuDellK2DockInfoStructure): 3-byte header, 20 packed 9-byte entries
DockInfoSize == 3 + MaxDevices * 9
\* sizeof(FuDellK2DockFWVersion): 10 + 6 packed guint32
DockFWVersionSize == (10 + 6) * 4

(***************************************************************************)
(* GError                                                                  *)
(***************************************************************************)
NoError == [code |-> "NONE", chunk |-> -1, resp |-> -1]

Err(c) == [code |-> c, chunk |-> -1, resp |-> -1]

\* g_set_error on a GError** that is already set keeps the first error
SetError(e, new) == IF e.code = "NONE" THEN new ELSE e

(***************************************************************************)
(* io events                                                               *)
(***************************************************************************)
EvSleep(ms) == [ev |-> "sleep", cmd |-> "", n |-> ms, m |-> 0, sz |-> 0, d |-> <<>>]

EvRead(c) == [ev |-> "read", cmd |-> c, n |-> 0, m |-> 0, sz |-> 0, d |-> <<>>]

EvWrite(c, bytes) ==
    [ev |-> "write", cmd |-> c, n |-> 0, m |-> 0, sz |-> Len(bytes), d |-> bytes]

EvHidWrite(i, j, sz, bytes) ==
    [ev |-> "hid_write", cmd |-> "", n |-> i, m |-> j, sz |-> sz, d |-> bytes]

\* the acknowledgment poll of chunk i; m is res[1], -1 when the poll failed
EvGetReport(i, resp) ==
    [ev |-> "get_report", cmd |-> "", n |-> i, m |-> resp, sz |-> 0, d |-> <<>>]

(***************************************************************************)
(* Results and calls                                                       *)
(***************************************************************************)
Running == [done |-> FALSE, ok |-> FALSE, err |-> NoError]

Returned(ok, e) == [done |-> TRUE, ok |-> ok, err |-> e]

NoIdx == [i |-> 0, j |-> 0, k |-> 0]

Call(op) == [op |-> op, lock |-> FALSE, dev_type |-> 0, dev_identifier |-> 0,
             fw |-> <<>>, in |-> "", status |-> 0, last |-> "", data |-> "",
             info |-> "", past |-> <<>>]

(***************************************************************************)
(* Dock identity (FuStructDellK2DockData)                                  *)
(***************************************************************************)
\* g_new0(FuStructDellK2DockData, 1)
ZeroedDockData == [st |-> "zeroed", dock_status |-> 0]

\* fu_struct_dell_k2_dock_data_parse returned NULL
NullDockData == [st |-> "null", dock_status |-> 0]

ParsedDockData(s) == [st |-> "parsed", dock_status |-> s]

\* dock status words the dock may report
StatusChoices == {0, 255, 256}

\* outcomes of the GET_DOCK_DATA read: transport failure, bytes that do not
\* parse, bytes that parse to a record with the given status word
DataReads ==
    {[res |-> "fail", status |-> 0], [res |-> "unparsable", status |-> 0]}
    \cup {[res |-> "ok", status |-> s] : s \in StatusChoices}

\* fu_struct_dell_k2_dock_data_get_dock_status: 0 through a NULL struct
GetDockStatus(dd) == IF dd.st = "parsed" THEN dd.dock_status ELSE 0

\* fu_dell_k2_ec_dock_data_cmd: the result of the parse is stored unchecked
\* and fu_dell_k2_ec_dock_data_extract always returns TRUE
DockDataCmd(e, r, dd) ==
    IF r.res = "fail"
    THEN [ok |-> FALSE, err |-> SetError(e, Err("READ")), dock_data |-> dd]
    ELSE IF r.res = "unparsable"
    THEN [ok |-> TRUE, err |-> SetError(e, Err("PARSE")), dock_data |-> NullDockData]
    ELSE [ok |-> TRUE, err |-> e, dock_data |-> ParsedDockData(r.status)]

(***************************************************************************)
(* Ownership handshake                                                     *)
(***************************************************************************)
\* outcomes of a transport write
WriteResults == {"ok", "NOT_FOUND", "WRITE"}

\* a request with the lock words exchanged
OwnDockReqInverted(lock) == <<2>> \o (IF lock THEN <<0, 0>> ELSE <<255, 255>>)

\* request of fu_dell_k2_ec_own_dock: command, data length, lock word (LE)
OwnDockReq(lock) == <<2>> \o (IF lock THEN <<255, 255>> ELSE <<0, 0>>)

\* the write error fu_dell_k2_ec_own_dock ignores
OwnDockIgnores(lock, w) == w = "NOT_FOUND"

\* a flag stored before the write is known to have worked
OwnDockStateEarly(lock, ok, old) == lock

\* self->dock_lock_state after fu_dell_k2_ec_own_dock: set past the error return
OwnDockState(lock, ok, old) == IF ok THEN lock ELSE old

OwnDock(lock, w) ==
    /\ pc = "idle"
    /\ done_setup # "failed"
    /\ call' = [Call("own_dock") EXCEPT !.lock = lock, !.in = w]
    /\ io' = <<EvSleep(1000), EvWrite("SET_MODIFY_LOCK", OwnDockReq(lock))>>
    /\ LET ok == w = "ok" \/ OwnDockIgnores(lock, w)
       IN  /\ dock_lock_state' = OwnDockState(lock, ok, dock_lock_state)
           /\ ret' = IF ok THEN Returned(TRUE, NoError) ELSE Returned(FALSE, Err(w))
    /\ idx' = NoIdx
    /\ UNCHANGED <<base_type, base_sku, dock_data, dock_info, children,
                   done_setup, pc>>

(***************************************************************************)
(* Readiness check                                                         *)
(***************************************************************************)
\* bit 8 of the status word
UpdatePending(s) == (s \div 256) % 2 = 1

IsDockReady4Update(r) ==
    /\ pc = "idle"
    /\ done_setup # "failed"
    /\ call' = [Call("is_dock_ready4update") EXCEPT !.in = r.res, !.status = r.status]
    /\ io' = <<EvRead("GET_DOCK_DATA")>>
    /\ LET q == DockDataCmd(NoError, r, dock_data)
       IN  /\ dock_data' = q.dock_data
           /\ ret' = IF ~q.ok
                     THEN Returned(FALSE, q.err)
                     ELSE IF UpdatePending(GetDockStatus(q.dock_data))
                     THEN Returned(FALSE, SetError(q.err, Err("BUSY")))
                     ELSE Returned(TRUE, q.err)
    /\ idx' = NoIdx
    /\ UNCHANGED <<base_type, base_sku, dock_info, dock_lock_state, children,
                   done_setup, pc>>

(***************************************************************************)
(* Passive update and package commit                                       *)
(***************************************************************************)
\* a passive update that also gives up the ownership flag
RunPassiveUpdateReleasing(w) ==
    /\ pc = "idle"
    /\ done_setup # "failed"
    /\ call' = [Call("run_passive_update") EXCEPT !.in = w]
    /\ io' = <<EvWrite("SET_PASSIVE", <<1, 2>>)>>
    /\ ret' = IF w = "ok" THEN Returned(TRUE, NoError) ELSE Returned(FALSE, Err(w))
    /\ idx' = NoIdx
    /\ dock_lock_state' = FALSE
    /\ UNCHANGED <<base_type, base_sku, dock_data, dock_info, children, done_setup, pc>>

RunPassiveUpdate(w) ==
    /\ pc = "idle"
    /\ done_setup # "failed"
    /\ call' = [Call("run_passive_update") EXCEPT !.in = w]
    /\ io' = <<EvWrite("SET_PASSIVE", <<1, 2>>)>>
    /\ ret' = IF w = "ok" THEN Returned(TRUE, NoError) ELSE Returned(FALSE, Err(w))
    /\ idx' = NoIdx
    /\ UNCHANGED <<base_type, base_sku, dock_data, dock_info, dock_lock_state,
                   children, done_setup, pc>>

\* a payload of n bytes, byte k having the value k
Payload(n) == [k \in 1..n |-> k % 256]

\* package lengths tried
PackageSizes == {0, DockFWVersionSize - 1, DockFWVersionSize, DockFWVersionSize + 1}

\* a commit that writes a payload of any length
CommitPackageUnchecked(n, w) ==
    /\ pc = "idle"
    /\ done_setup # "failed"
    /\ call' = [Call("commit_package") EXCEPT !.fw = Payload(n), !.in = w]
    /\ io' = <<EvWrite("SET_DOCK_PKG", <<n % 256>> \o Payload(n))>>
    /\ ret' = IF w = "ok" THEN Returned(TRUE, NoError) ELSE Returned(FALSE, Err(w))
    /\ idx' = NoIdx
    /\ UNCHANGED <<base_type, base_sku, dock_data, dock_info, dock_lock_state,
                   children, done_setup, pc>>

CommitPackage(n, w) ==
    /\ pc = "idle"
    /\ done_setup # "failed"
    /\ call' = [Call("commit_package") EXCEPT !.fw = Payload(n), !.in = w]
    /\ IF n # DockFWVersionSize
       THEN /\ w = "ok"
            /\ io' = <<>>
            /\ ret' = Returned(FALSE, Err("INVALID_DATA"))
       ELSE /\ io' = <<EvWrite("SET_DOCK_PKG", <<n % 256>> \o Payload(n))>>
            /\ ret' = IF w = "ok" THEN Returned(TRUE, NoError)
                      ELSE Returned(FALSE, Err(w))
    /\ idx' = NoIdx
    /\ UNCHANGED <<base_type, base_sku, dock_data, dock_info, dock_lock_state,
                   children, done_setup, pc>>

(***************************************************************************)
(* Dock topology (FuDellK2DockInfoStructure)                               *)
(***************************************************************************)
\* one FuDellK2EcQueryEntry; version is version_8[4] in wire order
Entry(dt, st, inst, ver) ==
    [location |-> 0, device_type |-> dt, sub_type |-> st, arg |-> 0,
     instance |-> inst, version |-> ver]

ZeroEntry == Entry(0, 0, 0, <<0, 0, 0, 0>>)

\* a table whose first entries are ents, the rest zero; devices holds the
\* entries up to the last one that is not zero
MkTable(total, ents) ==
    [total_devices |-> total, first_index |-> 0, last_index |-> 0, devices |-> ents]

\* g_new0(FuDellK2DockInfoStructure, 1)
ZeroedDockInfo == MkTable(0, <<>>)

EntEc == Entry(DEV_TYPE_MAIN_EC, 0, 0, <<1, 2, 3, 4>>)
EntTbtGr == Entry(DEV_TYPE_TBT, TBT_SUBTYPE_GR, 0, <<0, 0, 1, 0>>)
EntTbtBr == Entry(DEV_TYPE_TBT, TBT_SUBTYPE_BR, 0, <<0, 0, 2, 0>>)
EntPdUp5 == Entry(DEV_TYPE_PD, PD_SUBTYPE_TI, PD_INSTANCE_UP5, <<0, 5, 0, 0>>)
EntPdUp15 == Entry(DEV_TYPE_PD, PD_SUBTYPE_TI, PD_INSTANCE_UP15, <<0, 15, 0, 0>>)
EntPdUp17 == Entry(DEV_TYPE_PD, PD_SUBTYPE_TI, PD_INSTANCE_UP17, <<0, 17, 0, 0>>)
EntDpMux == Entry(DEV_TYPE_DP_MUX, 0, 0, <<0, 0, 0, 6>>)
EntLan == Entry(DEV_TYPE_LAN, 0, 0, <<7, 0, 0, 0>>)
EntWtpd == Entry(DEV_TYPE_WTPD, 0, 0, <<0, 0, 0, 10>>)

\* topology tables the dock may report; total_devices is one byte of the
\* buffer and is copied as it comes
Topologies ==
    { MkTable(0, <<>>),
      MkTable(0, <<EntEc>>),
      MkTable(4, <<EntEc, EntTbtGr, EntTbtBr, EntPdUp5>>),
      MkTable(4, <<EntEc, EntTbtGr, EntDpMux, EntLan>>),
      MkTable(3, <<EntEc, EntWtpd, EntPdUp17>>),
      MkTable(MaxDevices + 1, <<EntEc, EntTbtGr>>) }

\* what a read past devices[19] may find behind the table, as entries
NoPast == <<ZeroEntry>>

PastChoices == {NoPast, <<EntTbtBr>>, <<EntPdUp15>>}

\* whether the scan of the table runs past its end
Overrun(info) == info.total_devices > MaxDevices

\* self->dock_info->devices[k - 1] as read by the code
DeviceAt(info, past, k) ==
    IF k <= Len(info.devices) THEN info.devices[k]
    ELSE IF k <= MaxDevices THEN ZeroEntry
    ELSE past[k - MaxDevices]

\* outcomes of the GET_DOCK_INFO read: transport failure, a buffer of len bytes
InfoReads ==
    {[res |-> "fail", len |-> 0, table |-> ZeroedDockInfo],
     [res |-> "ok", len |-> DockInfoSize - 1, table |-> ZeroedDockInfo]}
    \cup {[res |-> "ok", len |-> DockInfoSize, table |-> t] : t \in Topologies}

\* the condition of fu_dell_k2_ec_dev_entry on one entry
DevEntryMatches(e, device_type, sub_type, instance) ==
    /\ e.device_type = device_type
    /\ (sub_type = 0 \/ e.sub_type = sub_type)
    /\ (device_type = DEV_TYPE_PD => e.instance = instance)

\* fu_dell_k2_ec_dev_entry: index (from 1) of the first match, 0 for NULL
DevEntry(info, past, device_type, sub_type, instance) ==
    LET hits == {k \in 1..info.total_devices :
                    DevEntryMatches(DeviceAt(info, past, k), device_type, sub_type,
                                    instance)}
    IN  IF hits = {} THEN 0 ELSE CHOOSE k \in hits : \A h \in hits : k <= h

\* fu_dell_k2_ec_dock_info_extract, after the NULL check
DockInfoNotReady(info) == info.total_devices = 0

\* a query that copies the buffer into the table before it checks its size
DockInfoCmdCopyFirst(e, r, di) ==
    IF r.res = "fail"
    THEN [ok |-> FALSE, err |-> SetError(e, Err("READ")), dock_info |-> di]
    ELSE IF r.len # DockInfoSize
    THEN [ok |-> FALSE, err |-> SetError(e, Err("INVALID_DATA")), dock_info |-> r.table]
    ELSE IF DockInfoNotReady(r.table)
    THEN [ok |-> FALSE, err |-> SetError(e, Err("SIGNATURE_INVALID")),
          dock_info |-> r.table]
    ELSE [ok |-> TRUE, err |-> e, dock_info |-> r.table]

\* a query that looks at total_devices before it copies the buffer
DockInfoCmdCheckFirst(e, r, di) ==
    IF r.res = "fail"
    THEN [ok |-> FALSE, err |-> SetError(e, Err("READ")), dock_info |-> di]
    ELSE IF r.len # DockInfoSize
    THEN [ok |-> FALSE, err |-> SetError(e, Err("INVALID_DATA")), dock_info |-> di]
    ELSE IF DockInfoNotReady(r.table)
    THEN [ok |-> FALSE, err |-> SetError(e, Err("SIGNATURE_INVALID")), dock_info |-> di]
    ELSE [ok |-> TRUE, err |-> e, dock_info |-> r.table]

\* fu_dell_k2_ec_dock_info_cmd
DockInfoCmd(e, r, di) ==
    IF r.res = "fail"
    THEN [ok |-> FALSE, err |-> SetError(e, Err("READ")), dock_info |-> di]
    ELSE IF r.len # DockInfoSize
    THEN [ok |-> FALSE, err |-> SetError(e, Err("INVALID_DATA")), dock_info |-> di]
    ELSE IF DockInfoNotReady(r.table)
    THEN [ok |-> FALSE, err |-> SetError(e, Err("SIGNATURE_INVALID")),
          dock_info |-> r.table]
    ELSE [ok |-> TRUE, err |-> e, dock_info |-> r.table]

\* fu_dell_k2_ec_set_dock_sku
SetDockSku(e, bt, info, past, sku) ==
    IF bt = BASE_TYPE_K2
    THEN [ok |-> TRUE, err |-> e,
          base_sku |->
              IF DevEntry(info, past, DEV_TYPE_TBT, TBT_SUBTYPE_BR, 0) # 0
              THEN K2_DOCK_SKU_TBT5
              ELSE IF DevEntry(info, past, DEV_TYPE_TBT, TBT_SUBTYPE_GR, 0) # 0
              THEN K2_DOCK_SKU_TBT4
              ELSE K2_DOCK_SKU_DPALT]
    ELSE [ok |-> FALSE, err |-> SetError(e, Err("NOT_FOUND")), base_sku |-> sku]

\* fu_dell_k2_ec_query_cb: one discovery attempt
QueryCb(rd, ri, past, dd, di, bt, sku) ==
    LET a == DockDataCmd(NoError, rd, dd)
        b == DockInfoCmd(a.err, ri, di)
        c == SetDockSku(b.err, bt, b.dock_info, past, sku)
    IN  IF ~a.ok
        THEN [ok |-> FALSE, err |-> a.err, dock_data |-> a.dock_data, dock_info |-> di,
              base_sku |-> sku, io |-> <<EvRead("GET_DOCK_DATA")>>]
        ELSE IF ~b.ok
        THEN [ok |-> FALSE, err |-> b.err, dock_data |-> a.dock_data,
              dock_info |-> b.dock_info, base_sku |-> sku,
              io |-> <<EvRead("GET_DOCK_DATA"), EvRead("GET_DOCK_INFO")>>]
        ELSE [ok |-> c.ok, err |-> c.err, dock_data |-> a.dock_data,
              dock_info |-> b.dock_info, base_sku |-> c.base_sku,
              io |-> <<EvRead("GET_DOCK_DATA"), EvRead("GET_DOCK_INFO")>>]

\* device types, sub-types and instances looked up
LookupTypes == {DEV_TYPE_PD, DEV_TYPE_TBT}

LookupSubTypes == {0, TBT_SUBTYPE_BR}

LookupInstances == {PD_INSTANCE_UP5, PD_INSTANCE_UP17}

\* fu_dell_k2_ec_is_dev_present; idx.k is the entry fu_dell_k2_ec_dev_entry
\* returned (from 1), 0 for NULL
IsDevPresent(dev_type, sub_type, instance, past) ==
    /\ pc = "idle"
    /\ done_setup # "failed"
    /\ past = NoPast \/ Overrun(dock_info)
    /\ call' = [Call("is_dev_present") EXCEPT !.dev_type = dev_type,
                   !.status = sub_type, !.dev_identifier = instance, !.past = past]
    /\ io' = <<>>
    /\ LET found == DevEntry(dock_info, past, dev_type, sub_type, instance)
       IN  /\ idx' = [NoIdx EXCEPT !.k = found]
           /\ ret' = Returned(found # 0, NoError)
    /\ UNCHANGED <<base_type, base_sku, dock_data, dock_info, dock_lock_state,
                   children, done_setup, pc>>

\* GUINT32_FROM_BE of version.version_32: the four bytes, first one highest
FromBE(ver) == ((ver[1] * 256 + ver[2]) * 256 + ver[3]) * 256 + ver[4]

\* the version getters that look an entry up, with the device type they ask for
Getters ==
    [get_pd_version |-> DEV_TYPE_PD, get_ilan_version |-> DEV_TYPE_LAN,
     get_wtpd_version |-> DEV_TYPE_WTPD, get_dpmux_version |-> DEV_TYPE_DP_MUX,
     get_rmm_version |-> DEV_TYPE_RMM, get_ec_version |-> DEV_TYPE_MAIN_EC]

\* the value a getter returns: 0 without an entry
VersionOf(info, past, dev_type, sub_type, instance) ==
    LET k == DevEntry(info, past, dev_type, sub_type, instance)
    IN  IF k = 0 THEN 0 ELSE FromBE(DeviceAt(info, past, k).version)

\* fu_dell_k2_ec_get_pd_version and the getters after it, which ask for sub-type
\* 0 and instance 0; idx.k is the entry found, call.status the value returned
GetVersion(getter, sub_type, instance, past) ==
    /\ pc = "idle"
    /\ done_setup # "failed"
    /\ past = NoPast \/ Overrun(dock_info)
    /\ getter = "get_pd_version" \/ (sub_type = 0 /\ instance = 0)
    /\ call' = [Call(getter) EXCEPT !.dev_type = Getters[getter],
                   !.dev_identifier = instance, !.past = past,
                   !.status = VersionOf(dock_info, past, Getters[getter], sub_type,
                                        instance)]
    /\ io' = <<>>
    /\ idx' = [NoIdx EXCEPT !.k = DevEntry(dock_info, past, Getters[getter], sub_type,
                                          instance)]
    /\ ret' = Returned(TRUE, NoError)
    /\ UNCHANGED <<base_type, base_sku, dock_data, dock_info, dock_lock_state,
                   children, done_setup, pc>>

(***************************************************************************)
(* Discovery: setup and reload around fu_device_retry_full                 *)
(***************************************************************************)
\* a count that is one short
RetryCountShort == 10 - 1

\* the count and delay handed to fu_device_retry_full
RetryCount == 10
RetryDelay == 2000

\* fu_device_retry_full after attempt i (from 0): stop with success, stop with
\* the error of this attempt, or go round again
RetryFull(i, count, ok) ==
    IF ok THEN "success" ELSE IF i >= count - 1 THEN "fail" ELSE "again"

\* dock-type bytes the dock may report
DockTypes == {4, BASE_TYPE_K2}

\* outcomes of the GET_DOCK_TYPE read
TypeReads == {[res |-> "fail", byte |-> 0]} \cup {[res |-> "ok", byte |-> b] : b \in DockTypes}

\* a check that lets every dock type through
DockTypeAny(dock_type) == TRUE

\* fu_dell_k2_ec_dock_type_extract
DockTypeSupported(dock_type) == dock_type = BASE_TYPE_K2

\* fu_dell_k2_ec_setup up to the retry loop: parent setup, fu_dell_k2_ec_dock_type_cmd
Setup(parent_ok, rt) ==
    /\ pc = "idle"
    /\ done_setup = "no"
    /\ call' = IF parent_ok
               THEN [Call("setup") EXCEPT !.in = rt.res, !.status = rt.byte]
               ELSE [Call("setup") EXCEPT !.in = "parent"]
    /\ parent_ok \/ rt.res = "fail"
    /\ idx' = NoIdx
    /\ IF ~parent_ok
       THEN /\ io' = <<>>
            /\ ret' = Returned(FALSE, Err("PARENT"))
            /\ done_setup' = "failed"
            /\ UNCHANGED <<base_type, pc>>
       ELSE IF rt.res = "fail"
       THEN /\ io' = <<EvRead("GET_DOCK_TYPE")>>
            /\ ret' = Returned(FALSE, Err("READ"))
            /\ done_setup' = "failed"
            /\ UNCHANGED <<base_type, pc>>
       ELSE /\ io' = <<EvRead("GET_DOCK_TYPE")>>
            /\ base_type' = rt.byte
            /\ IF DockTypeSupported(rt.byte)
               THEN /\ pc' = "query"
                    /\ ret' = Running
                    /\ done_setup' = done_setup
               ELSE /\ pc' = pc
                    /\ ret' = Returned(FALSE, Err("NOT_FOUND"))
                    /\ done_setup' = "failed"
    /\ UNCHANGED <<base_sku, dock_data, dock_info, dock_lock_state, children>>

\* fu_dell_k2_ec_reload up to the retry loop
Reload ==
    /\ pc = "idle"
    /\ done_setup = "ok"
    /\ call' = Call("reload")
    /\ idx' = NoIdx
    /\ io' = <<>>
    /\ ret' = Running
    /\ pc' = "query"
    /\ UNCHANGED <<base_type, base_sku, dock_data, dock_info, dock_lock_state,
                   children, done_setup>>

\* the attempt read a full-size topology table with total_devices = 0
ReadsNoDevices(rd, ri) ==
    rd.res # "fail" /\ ri.res = "ok" /\ ri.len = DockInfoSize /\ ri.table.total_devices = 0

\* one round of fu_device_retry_full in setup or reload: the delay (after the
\* first attempt), fu_dell_k2_ec_query_cb, and the decision.  idx.i counts the
\* attempts made and idx.j the delays slept, idx.k is 0 as long as every attempt
\* read a topology without devices; io holds the events of this round,
\* call.last the outcome of its attempt, call.data the outcome of its
\* identity read and call.info the outcome of its
\* topology read ("" when none was issued, "fail", "size" for a buffer of
\* another length, "ok").
Query(rd, ri, past) ==
    /\ pc = "query"
    /\ past = NoPast \/ (rd.res # "fail" /\ ri.res = "ok" /\ ri.len = DockInfoSize
                          /\ Overrun(ri.table))
    /\ LET q == QueryCb(rd, ri, past, dock_data, dock_info, base_type, base_sku)
           slept == IF idx.i > 0 THEN <<EvSleep(RetryDelay)>> ELSE <<>>
           next == RetryFull(idx.i, RetryCount, q.ok)
       IN  /\ io' = slept \o q.io
           /\ idx' = [i |-> idx.i + 1, j |-> idx.j + Len(slept),
                       k |-> IF ReadsNoDevices(rd, ri) THEN idx.k ELSE 1]
           /\ dock_data' = q.dock_data
           /\ dock_info' = q.dock_info
           /\ base_sku' = q.base_sku
           /\ call' = [call EXCEPT !.last = IF q.ok THEN "ok" ELSE q.err.code,
                                    !.data = rd.res,
                                    !.info = IF rd.res = "fail" THEN ""
                                             ELSE IF ri.res = "fail" THEN "fail"
                                             ELSE IF ri.len # DockInfoSize THEN "size"
                                             ELSE "ok",
                                    !.past = past]
           /\ IF next = "again"
              THEN UNCHANGED <<pc, ret, done_setup>>
              ELSE IF next = "fail"
              THEN /\ pc' = "idle"
                   /\ ret' = Returned(FALSE, q.err)
                   /\ done_setup' = IF call.op = "setup" THEN "failed" ELSE done_setup
              ELSE IF call.op = "setup"
              THEN /\ pc' = "probe"
                   /\ UNCHANGED <<ret, done_setup>>
              ELSE /\ pc' = "idle"
                   /\ ret' = Returned(TRUE, NoError)
                   /\ done_setup' = done_setup
    /\ UNCHANGED <<base_type, dock_lock_state, children>>

(***************************************************************************)
(* Sub-device factory                                                      *)
(***************************************************************************)
\* a factory that probes the network controller before the PD controllers
ProbeListLanFirst(info, past) ==
    LET pd(inst, name) ==
            IF DevEntry(info, past, DEV_TYPE_PD, PD_SUBTYPE_TI, inst) # 0
            THEN <<name>> ELSE <<>>
        one(dt, name) == IF DevEntry(info, past, dt, 0, 0) # 0 THEN <<name>> ELSE <<>>
    IN  <<"package">>
        \o one(DEV_TYPE_LAN, "ilan")
        \o pd(PD_INSTANCE_UP5, "pd_up5")
        \o pd(PD_INSTANCE_UP15, "pd_up15")
        \o pd(PD_INSTANCE_UP17, "pd_up17")
        \o one(DEV_TYPE_DP_MUX, "dpmux")
        \o one(DEV_TYPE_WTPD, "wtpd")

\* the children fu_dell_k2_ec_probe_subcomponents tries to create, in order
ProbeList(info, past) ==
    LET pd(inst, name) ==
            IF DevEntry(info, past, DEV_TYPE_PD, PD_SUBTYPE_TI, inst) # 0
            THEN <<name>> ELSE <<>>
        one(dt, name) == IF DevEntry(info, past, dt, 0, 0) # 0 THEN <<name>> ELSE <<>>
    IN  <<"package">>
        \o pd(PD_INSTANCE_UP5, "pd_up5")
        \o pd(PD_INSTANCE_UP15, "pd_up15")
        \o pd(PD_INSTANCE_UP17, "pd_up17")
        \o one(DEV_TYPE_DP_MUX, "dpmux")
        \o one(DEV_TYPE_WTPD, "wtpd")
        \o one(DEV_TYPE_LAN, "ilan")

\* the rest of fu_dell_k2_ec_setup; fail_at = 0 when every
\* fu_dell_k2_ec_create_node succeeds, else the position of the one that fails
Probe(fail_at, past) ==
    /\ pc = "probe"
    /\ past = NoPast \/ Overrun(dock_info)
    /\ LET todo == ProbeList(dock_info, past)
       IN  /\ fail_at <= Len(todo)
           /\ IF fail_at = 0
              THEN /\ children' = children \o todo
                   /\ ret' = Returned(TRUE, NoError)
                   /\ done_setup' = "ok"
              ELSE /\ children' = children \o SubSeq(todo, 1, fail_at - 1)
                   /\ ret' = Returned(FALSE, Err("LOCKER"))
                   /\ done_setup' = "failed"
    /\ pc' = "idle"
    /\ call' = [call EXCEPT !.past = past]
    /\ UNCHANGED <<base_type, base_sku, dock_data, dock_info, dock_lock_state,
                   io, idx>>

(***************************************************************************)
(* Chunked firmware transfer                                               *)
(***************************************************************************)
\* fu_dell_k2_ec_get_chunk_delaytime
GetChunkDelaytime(dev_type) ==
    CASE dev_type = DEV_TYPE_MAIN_EC -> 3 * 1000
      [] dev_type = DEV_TYPE_RMM -> 60 * 1000
      [] dev_type = DEV_TYPE_PD -> 15 * 1000
      [] dev_type = DEV_TYPE_LAN -> 70 * 1000
      [] OTHER -> 30 * 1000

\* fu_dell_k2_ec_get_chunk_size
GetChunkSize(dev_type) ==
    CASE dev_type = DEV_TYPE_MAIN_EC -> EcChunkSz
      [] dev_type = DEV_TYPE_RMM -> NoChunkSz
      [] OTHER -> AnyChunkSz

\* a first-page delay that every device class waits
GetFirstPageDelaytimeAll(dev_type) == 75 * 1000

\* fu_dell_k2_ec_get_first_page_delaytime
GetFirstPageDelaytime(dev_type) == IF dev_type = DEV_TYPE_RMM THEN 75 * 1000 ELSE 0

\* fu_chunk_array_new_from_bytes: consecutive slices of at most sz bytes
RECURSIVE ChunkArray(_, _)
ChunkArray(bytes, sz) ==
    IF Len(bytes) = 0 THEN <<>>
    ELSE IF Len(bytes) <= sz THEN <<bytes>>
    ELSE <<SubSeq(bytes, 1, sz)>> \o ChunkArray(SubSeq(bytes, sz + 1, Len(bytes)), sz)

\* fu_dell_k2_ec_hid_fwup_pkg_new: the transfer header, then the chunk
FwupPkgNew(chk, fw_sz, dev_type, dev_identifier) ==
    <<fw_sz, dev_type, dev_identifier>> \o chk

\* a chunk loop that runs once for an empty payload
ChunksAtLeastOne(fw, dev_type) ==
    IF Len(fw) = 0 THEN <<fw>> ELSE ChunkArray(fw, GetChunkSize(dev_type))

\* the chunks of a transfer
Chunks(fw, dev_type) == ChunkArray(fw, GetChunkSize(dev_type))

\* pages that share their boundary byte
PagesOverlapping(chk, fw_sz, dev_type, dev_identifier) ==
    LET buf == FwupPkgNew(chk, fw_sz, dev_type, dev_identifier)
    IN  IF Len(buf) <= PageSz THEN <<buf>>
        ELSE <<SubSeq(buf, 1, PageSz)>> \o ChunkArray(SubSeq(buf, PageSz, Len(buf)), PageSz)

\* the pages of one chunk: the framed chunk sliced into pages
Pages(chk, fw_sz, dev_type, dev_identifier) ==
    ChunkArray(FwupPkgNew(chk, fw_sz, dev_type, dev_identifier), PageSz)

\* a page sent as it was sliced
PageAlignedTruncated(page) == page

\* guint8 page_aligned[PAGE_SZ] = {0xff}, then the page copied over its start
PageAligned(page) ==
    [k \in 1..PageSz |-> IF k <= Len(page) THEN page[k] ELSE IF k = 1 THEN 255 ELSE 0]

\* the sub-devices a transfer is addressed to: <<dev_type, dev_identifier>>
TransferTargets ==
    {<<DEV_TYPE_MAIN_EC, 0>>, <<DEV_TYPE_RMM, 0>>, <<DEV_TYPE_PD, 1>>,
     <<DEV_TYPE_LAN, 0>>, <<DEV_TYPE_TBT, 0>>}

\* outcomes of fu_dell_k2_ec_hid_write and fu_hid_device_get_report
HidResults == {"ok", "fail"}

\* res[1] values the dock may answer
AckBytes == {0, RESP_UPDATE_COMPLETE, RESP_SEND_NEXT_CHUNK, RESP_UPDATE_FAILED}

\* a switch without the 'update complete' case
AckAcceptedNextOnly(resp) == resp = RESP_SEND_NEXT_CHUNK

\* a switch that rejects only the 'update failed' code
AckAcceptedLax(resp) == resp # RESP_UPDATE_FAILED

\* the switch on res[1]
AckAccepted(resp) == resp = RESP_UPDATE_COMPLETE \/ resp = RESP_SEND_NEXT_CHUNK

\* fu_dell_k2_ec_write_firmware_helper up to the chunk loop
WriteFirmware(target, n, bytes_ok) ==
    /\ pc = "idle"
    /\ done_setup # "failed"
    /\ call' = [Call("write_firmware") EXCEPT !.dev_type = target[1],
                   !.dev_identifier = target[2],
                   !.fw = IF bytes_ok THEN Payload(n) ELSE <<>>]
    /\ io' = <<>>
    /\ idx' = NoIdx
    /\ IF ~bytes_ok
       THEN /\ n = 0
            /\ ret' = Returned(FALSE, Err("NOT_FOUND"))
            /\ pc' = pc
       ELSE IF Len(Chunks(Payload(n), target[1])) = 0
       THEN /\ ret' = Returned(TRUE, NoError)
            /\ pc' = pc
       ELSE /\ ret' = Running
            /\ pc' = "page"
    /\ UNCHANGED <<base_type, base_sku, dock_data, dock_info, dock_lock_state,
                   children, done_setup>>

\* a page loop that writes a page again when its write failed
SendPageRetrying(w) ==
    /\ pc = "page"
    /\ LET chk == Chunks(call.fw, call.dev_type)[idx.i + 1]
           pages == Pages(chk, Len(call.fw), call.dev_type, call.dev_identifier)
           page == pages[idx.j + 1]
           wrote == <<EvHidWrite(idx.i, idx.j, Len(page), PageAligned(page))>>
       IN  IF w # "ok"
           THEN /\ io' = io \o wrote
                /\ UNCHANGED <<ret, pc, idx>>
           ELSE /\ io' = io \o wrote \o
                         (IF idx.j = 0
                          THEN <<EvSleep(GetFirstPageDelaytime(call.dev_type))>>
                          ELSE <<>>)
                /\ ret' = ret
                /\ IF idx.j + 1 < Len(pages)
                   THEN /\ idx' = [idx EXCEPT !.j = idx.j + 1]
                        /\ pc' = pc
                   ELSE /\ idx' = idx
                        /\ pc' = "ack"
    /\ call' = [call EXCEPT !.in = w]
    /\ UNCHANGED <<base_type, base_sku, dock_data, dock_info, dock_lock_state,
                   children, done_setup>>

\* one round of the page loop: page j of chunk i is written, the first page
\* of a chunk is followed by the first-page delay; call.in is the outcome of
\* the write
SendPage(w) ==
    /\ pc = "page"
    /\ LET chk == Chunks(call.fw, call.dev_type)[idx.i + 1]
           pages == Pages(chk, Len(call.fw), call.dev_type, call.dev_identifier)
           page == pages[idx.j + 1]
           wrote == <<EvHidWrite(idx.i, idx.j, Len(page), PageAligned(page))>>
       IN  IF w # "ok"
           THEN /\ io' = io \o wrote
                /\ ret' = Returned(FALSE, Err("WRITE_IO"))
                /\ pc' = "idle"
                /\ idx' = idx
           ELSE /\ io' = io \o wrote \o
                         (IF idx.j = 0
                          THEN <<EvSleep(GetFirstPageDelaytime(call.dev_type))>>
                          ELSE <<>>)
                /\ ret' = ret
                /\ IF idx.j + 1 < Len(pages)
                   THEN /\ idx' = [idx EXCEPT !.j = idx.j + 1]
                        /\ pc' = pc
                   ELSE /\ idx' = idx
                        /\ pc' = "ack"
    /\ call' = [call EXCEPT !.in = w]
    /\ UNCHANGED <<base_type, base_sku, dock_data, dock_info, dock_lock_state,
                   children, done_setup>>

\* a poll issued before the settle delay
AckEventsPollFirst(dev_type, i, resp) ==
    <<EvGetReport(i, resp), EvSleep(GetChunkDelaytime(dev_type))>>

\* the end of a chunk: the settle delay, then the poll of the acknowledgment
AckEvents(dev_type, i, resp) ==
    <<EvSleep(GetChunkDelaytime(dev_type)), EvGetReport(i, resp)>>

\* the end of one round of the chunk loop: the settle delay, the poll of the
\* acknowledgment and the switch on its byte 1; call.in is the outcome of the
\* poll
PollAck(g, resp) ==
    /\ pc = "ack"
    /\ LET last == idx.i + 1 >= Len(Chunks(call.fw, call.dev_type))
       IN  IF g # "ok"
           THEN /\ io' = io \o AckEvents(call.dev_type, idx.i, -1)
                /\ ret' = Returned(FALSE, Err("READ_IO"))
                /\ pc' = "idle"
                /\ idx' = idx
           ELSE /\ io' = io \o AckEvents(call.dev_type, idx.i, resp)
                /\ IF ~AckAccepted(resp)
                   THEN /\ ret' = Returned(FALSE, [code |-> "WRITE", chunk |-> idx.i,
                                                   resp |-> resp])
                        /\ pc' = "idle"
                        /\ idx' = idx
                   ELSE IF last
                   THEN /\ ret' = Returned(TRUE, NoError)
                        /\ pc' = "idle"
                        /\ idx' = idx
                   ELSE /\ ret' = ret
                        /\ pc' = "page"
                        /\ idx' = [idx EXCEPT !.i = idx.i + 1, !.j = 0]
    /\ call' = [call EXCEPT !.in = g]
    /\ UNCHANGED <<base_type, base_sku, dock_data, dock_info, dock_lock_state,
                   children, done_setup>>

(***************************************************************************)
(* The device                                                              *)
(***************************************************************************)
\* fu_dell_k2_ec_init
Init ==
    /\ base_type = 0
    /\ base_sku = 0
    /\ dock_data = ZeroedDockData
    /\ dock_info = ZeroedDockInfo
    /\ dock_lock_state = FALSE
    /\ children = <<>>
    /\ done_setup = "no"
    /\ pc = "idle"
    /\ call = Call("init")
    /\ ret = Returned(TRUE, NoError)
    /\ io = <<>>
    /\ idx = NoIdx

\* the operations of the controller other than the firmware transfer
Control ==
    \/ \E lock \in BOOLEAN, w \in WriteResults : OwnDock(lock, w)
    \/ \E r \in DataReads : IsDockReady4Update(r)
    \/ \E w \in WriteResults : RunPassiveUpdate(w)
    \/ \E n \in PackageSizes, w \in WriteResults : CommitPackage(n, w)
    \/ \E parent_ok \in BOOLEAN, rt \in TypeReads : Setup(parent_ok, rt)
    \/ Reload
    \/ \E rd \in DataReads, ri \in InfoReads, past \in PastChoices : Query(rd, ri, past)
    \/ \E fail_at \in 0..7, past \in PastChoices : Probe(fail_at, past)

\* the rounds of a firmware transfer in progress
Transfer ==
    \/ \E w \in HidResults : SendPage(w)
    \/ \E g \in HidResults, resp \in AckBytes : PollAck(g, resp)

\* the whole device, firmware payloads of at most ShortFwSz bytes
Next ==
    \/ Control
    \/ \E target \in TransferTargets, n \in 0..ShortFwSz, bytes_ok \in BOOLEAN :
          WriteFirmware(target, n, bytes_ok)
    \/ Transfer

Spec == Init /\ [][Next]_vars

\* the update path: ownership, readiness check and firmware transfers of
\* payloads of up to MaxFwSz bytes
NextTransfer ==
    \/ \E lock \in BOOLEAN, w \in WriteResults : OwnDock(lock, w)
    \/ \E r \in DataReads : IsDockReady4Update(r)
    \/ \E target \in TransferTargets, n \in 0..MaxFwSz, bytes_ok \in BOOLEAN :
          WriteFirmware(target, n, bytes_ok)
    \/ Transfer

SpecTransfer == Init /\ [][NextTransfer]_vars

\* discovery and the lookups in the topology it stores
NextDiscovery ==
    \/ \E parent_ok \in BOOLEAN, rt \in TypeReads : Setup(parent_ok, rt)
    \/ Reload
    \/ \E rd \in DataReads, ri \in InfoReads, past \in PastChoices : Query(rd, ri, past)
    \/ \E fail_at \in 0..7, past \in PastChoices : Probe(fail_at, past)
    \/ \E dev_type \in LookupTypes, sub_type \in LookupSubTypes,
          instance \in LookupInstances, past \in PastChoices :
          IsDevPresent(dev_type, sub_type, instance, past)
    \/ \E getter \in DOMAIN Getters, sub_type \in {PD_SUBTYPE_TI},
          instance \in {0} \cup LookupInstances, past \in PastChoices :
          GetVersion(getter, sub_type, instance, past)

SpecDiscovery == Init /\ [][NextDiscovery]_vars

(***************************************************************************)
(* Properties of the firmware transfer                                     *)
(***************************************************************************)
Min(a, b) == IF a <= b THEN a ELSE b

CeilDiv(a, b) == (a + b - 1) \div b

\* positions of io holding an event of kind ev
At(ev) == {p \in 1..Len(io) : io[p].ev = ev}

\* number of acknowledgment polls before position p
PollsBefore(p) == Cardinality({q \in At("get_report") : q < p})

\* chunk of the last page written before position p, -1 if none
LastChunkWritten(p) ==
    LET ws == {q \in At("hid_write") : q < p}
    IN  IF ws = {} THEN -1 ELSE io[CHOOSE q \in ws : \A r \in ws : r <= q].n

\* the page writes of chunk i, in the order sent
PageWrites(i) ==
    LET OfChunk(e) == e.ev = "hid_write" /\ e.n = i
    IN  SelectSeq(io, OfChunk)

RECURSIVE SumSz(_)
SumSz(ws) == IF ws = <<>> THEN 0 ELSE Head(ws).sz + SumSz(Tail(ws))

\* the contents of the pages, padding cut off, one after the other
RECURSIVE Contents(_)
Contents(ws) ==
    IF ws = <<>> THEN <<>> ELSE SubSeq(Head(ws).d, 1, Head(ws).sz) \o Contents(Tail(ws))

\* bytes i*C+1 .. (i+1)*C of the payload: chunk i (from 0) for chunk size C
ChunkBytes(i) ==
    LET C == GetChunkSize(call.dev_type)
    IN  SubSeq(call.fw, i * C + 1, Min((i + 1) * C, Len(call.fw)))

\* number of chunks of the payload of the current transfer
NumChunks == CeilDiv(Len(call.fw), GetChunkSize(call.dev_type))

\* chunk i with its transfer header
Framed(i) == FwupPkgNew(ChunkBytes(i), Len(call.fw), call.dev_type, call.dev_identifier)

TransferSucceeded == call.op = "write_firmware" /\ ret.done /\ ret.ok

\* C1: an acknowledgment byte other than UpdateComplete and SendNextChunk,
\* polled after chunk i, ends the transfer with a write error that carries i
\* and the byte; it is the last event of the transfer.
C1_RejectedAckAborts ==
    \A p \in At("get_report") :
        (io[p].m >= 0 /\ io[p].m \notin {RESP_UPDATE_COMPLETE, RESP_SEND_NEXT_CHUNK}) =>
            /\ p = Len(io)
            /\ pc = "idle"
            /\ LastChunkWritten(p) = PollsBefore(p)
            /\ ret = Returned(FALSE, [code |-> "WRITE", chunk |-> PollsBefore(p),
                                      resp |-> io[p].m])

\* C1 witness: the second chunk was answered with the 'update failed' code
C1_Witness ==
    /\ ret.done /\ ~ret.ok
    /\ ret.err.chunk = 1 /\ ret.err.resp = RESP_UPDATE_FAILED
    /\ io[Len(io)].ev = "get_report"

\* C2 as stated: a successful transfer polls ceil(L/C) chunks and the page
\* contents of each chunk sum to the chunk's byte length.
C2_PagesSumToChunk ==
    TransferSucceeded =>
        /\ Cardinality(At("get_report")) = NumChunks
        /\ \A i \in 0..(NumChunks - 1) : SumSz(PageWrites(i)) = Len(ChunkBytes(i))

\* C2 amended: a successful transfer polls ceil(L/C) chunks, and the page
\* contents of each chunk, in send order, are exactly the transfer header
\* followed by the chunk's bytes: they sum to the header length plus the
\* chunk's byte length.
C2_PagesCoverFramedChunk ==
    TransferSucceeded =>
        /\ Cardinality(At("get_report")) = NumChunks
        /\ {io[p].n : p \in At("hid_write")} = 0..(NumChunks - 1)
        /\ \A i \in 0..(NumChunks - 1) :
              LET ws == PageWrites(i)
              IN  /\ \A k \in 1..Len(ws) : ws[k].m = k - 1 /\ ws[k].sz <= PageSz
                  /\ SumSz(ws) = Len(Framed(i))
                  /\ Len(Framed(i)) = 3 + Len(ChunkBytes(i))
                  /\ Contents(ws) = Framed(i)

\* C2 witness: a successful transfer of several chunks, one of several pages
C2_Witness ==
    /\ TransferSucceeded
    /\ NumChunks >= 2
    /\ \E p \in At("hid_write") : io[p].m >= 1

\* C3: the acknowledgment of a chunk is polled once, right after the settle
\* delay of the device class, which follows all pages of the chunk; a page of
\* the next chunk is written only after that acknowledgment was accepted.
C3_ChunkOrder ==
    call.op = "write_firmware" =>
        /\ \A p \in At("get_report") :
              LET i == io[p].n
              IN  /\ p > 1
                  /\ io[p - 1] = EvSleep(GetChunkDelaytime(call.dev_type))
                  /\ GetChunkDelaytime(call.dev_type) \in 3000..70000
                  /\ Len(PageWrites(i)) = CeilDiv(Len(Framed(i)), PageSz)
                  /\ \A q \in At("hid_write") : io[q].n = i => q < p - 1
                  /\ \A q \in At("get_report") : io[q].n = i => q = p
        /\ \A p \in At("hid_write") :
              io[p].n > 0 =>
                  \E q \in At("get_report") :
                      /\ q < p
                      /\ io[q].n = io[p].n - 1
                      /\ io[q].m \in {RESP_UPDATE_COMPLETE, RESP_SEND_NEXT_CHUNK}

\* C3 witness: the second page of the second chunk has been written
C3_Witness ==
    /\ call.op = "write_firmware"
    /\ \E p \in At("hid_write") : io[p].n = 1 /\ io[p].m = 1

(***************************************************************************)
(* Properties of discovery                                                 *)
(***************************************************************************)
Discovering == call.op \in {"setup", "reload"} /\ idx.i >= 1

\* C4: when every attempt read a topology without devices, discovery ends
\* after exactly 10 attempts and 9 delays with the 'no devices' error of the
\* last attempt; when an attempt succeeds, the loop ends with it.
C4_NotReadyExhausts ==
    /\ (Discovering /\ idx.k = 0 /\ pc = "idle") =>
           /\ idx.i = 10 /\ idx.j = 9
           /\ ret = Returned(FALSE, Err("SIGNATURE_INVALID"))
    /\ (Discovering /\ idx.k = 0 /\ pc = "query") => idx.i < 10 /\ idx.j = idx.i - 1
    /\ (Discovering /\ call.last = "ok") =>
           /\ pc # "query" /\ idx.i <= 10 /\ idx.j = idx.i - 1
           /\ (call.op = "reload" => ret = Returned(TRUE, NoError))

\* the part of C4 that holds: the counts, and the error when the identity
\* record of the last attempt parsed
C4_CountsAndParsedError ==
    /\ (Discovering /\ idx.k = 0 /\ pc = "idle") =>
           /\ idx.i = 10 /\ idx.j = 9
           /\ ret.done /\ ~ret.ok
           /\ (dock_data.st = "parsed" => ret.err = Err("SIGNATURE_INVALID"))
    /\ (Discovering /\ idx.k = 0 /\ pc = "query") => idx.i < 10 /\ idx.j = idx.i - 1
    /\ (Discovering /\ call.last = "ok") =>
           /\ pc # "query" /\ idx.i <= 10 /\ idx.j = idx.i - 1
           /\ (call.op = "reload" => ret = Returned(TRUE, NoError))

C6_UnsupportedDockStops ==
    (call.op = "setup" /\ call.in = "ok" /\ call.status # BASE_TYPE_K2) =>
        /\ pc = "idle"
        /\ ret = Returned(FALSE, Err("NOT_FOUND"))
        /\ io = <<EvRead("GET_DOCK_TYPE")>>
        /\ idx.i = 0
        /\ base_type = call.status
        /\ children = <<>>
        /\ done_setup = "failed"

\* C6 witness: setup read a dock type that is not K2
C6_Witness ==
    call.op = "setup" /\ call.in = "ok" /\ call.status = 4 /\ ret.done

(***************************************************************************)
(* Properties of the ownership handshake and the readiness check           *)
(***************************************************************************)
\* C7: own_dock returns success when the write succeeded, or failed with
\* 'not found' in an unlock; every other failing write fails the call with
\* that error.
C7_SwallowsNotFoundOnUnlockOnly ==
    call.op = "own_dock" =>
        /\ ret.done
        /\ ret.ok = (call.in = "ok" \/ (call.in = "NOT_FOUND" /\ ~call.lock))
        /\ (~ret.ok => ret.err = Err(call.in))

\* C8 as stated: after an own_dock call the flag is the argument of the call
\* if its write succeeded and is unchanged otherwise.
C8_FlagFollowsWrite ==
    [][call'.op = "own_dock" =>
          dock_lock_state' = IF call'.in = "ok" THEN call'.lock ELSE dock_lock_state]_vars

\* C8 amended: after an own_dock call the flag is the argument of the call
\* if the call returned success (its write succeeded or its 'not found' error
\* was swallowed) and is unchanged if it returned an error.
C8_FlagFollowsReturn ==
    [][call'.op = "own_dock" =>
          /\ ret'.done
          /\ dock_lock_state' = IF ret'.ok THEN call'.lock ELSE dock_lock_state]_vars

\* C8 witness: a lock whose write failed left the flag released, and an
\* unlock whose 'not found' error was swallowed released it
C8_Witness ==
    /\ call.op = "own_dock" /\ ~call.lock /\ call.in = "NOT_FOUND"
    /\ ret.ok /\ ~dock_lock_state

\* C9: only own_dock changes the ownership flag.
C9_OnlyOwnDockChangesFlag ==
    [][call'.op # "own_dock" => dock_lock_state' = dock_lock_state]_vars

\* C9 witness: the dock is owned and a reload has failed
C9_Witness ==
    dock_lock_state /\ call.op = "reload" /\ ret.done /\ ~ret.ok

\* C10: the readiness check reads the identity once; it fails with the
\* failure of the query, else with Busy exactly when bit 8 of the status word
\* read is set.
C10_ReadyCheck ==
    call.op = "is_dock_ready4update" =>
        /\ ret.done
        /\ io = <<EvRead("GET_DOCK_DATA")>>
        /\ (call.in = "fail" => ret = Returned(FALSE, Err("READ")))
        /\ (call.in = "unparsable" => ret = Returned(FALSE, Err("PARSE")))
        /\ (call.in = "ok" =>
                ret = IF (call.status \div 256) % 2 = 1
                      THEN Returned(FALSE, Err("BUSY"))
                      ELSE Returned(TRUE, NoError))

\* the part of C10 that holds: one read, the read failure returned, Busy by
\* bit 8 of a status word that parsed
C10_ReadyCheckWhenParsed ==
    call.op = "is_dock_ready4update" =>
        /\ ret.done
        /\ io = <<EvRead("GET_DOCK_DATA")>>
        /\ (call.in = "fail" => ret = Returned(FALSE, Err("READ")))
        /\ (call.in = "ok" =>
                ret = IF (call.status \div 256) % 2 = 1
                      THEN Returned(FALSE, Err("BUSY"))
                      ELSE Returned(TRUE, NoError))

(***************************************************************************)
(* Properties of the topology                                              *)
(***************************************************************************)
\* C11: a discovery attempt whose topology read fails, or returns a buffer of
\* another length than the table, fails and leaves the stored table as it was;
\* the error is the read error or the size mismatch (unless the identity query
\* had already left an error behind).
C11_FailedTopologyReadKeepsTable ==
    [][(pc = "query" /\ call'.info \in {"fail", "size"}) =>
          /\ dock_info' = dock_info
          /\ call'.last # "ok"
          /\ pc' \in {"query", "idle"}
          /\ (pc' = "idle" => ret'.done /\ ~ret'.ok)
          /\ (dock_data'.st = "parsed" =>
                 call'.last = IF call'.info = "fail" THEN "READ" ELSE "INVALID_DATA")]_vars

\* C11 witness: a reload read a buffer of another length and the table of the
\* last discovery is still stored
C11_Witness ==
    /\ call.op = "reload" /\ call.info = "size" /\ call.last = "INVALID_DATA"
    /\ dock_info.total_devices > 0

\* a discovery (setup or reload) whose last attempt succeeded
Discovered == Discovering /\ call.last = "ok"

\* indices of the entries the stored table holds
TableEntries == 1..Min(dock_info.total_devices, MaxDevices)

\* C12: after a successful discovery the stored table has between 1 and 20
\* devices.
C12_TableWithinCapacity ==
    Discovered => (1 <= dock_info.total_devices /\ dock_info.total_devices <= 20)

\* the part of C12 that holds: a table without devices is never accepted
C12_NeverEmptyAfterSuccess ==
    Discovered => dock_info.total_devices >= 1

\* the condition of find_device on what the scan reads at index k
Satisfies(k) ==
    LET e == DeviceAt(dock_info, call.past, k)
    IN  /\ e.device_type = call.dev_type
        /\ (call.status = 0 \/ e.sub_type = call.status)
        /\ (call.dev_type # DEV_TYPE_PD \/ e.instance = call.dev_identifier)

\* C13: a lookup returns the lowest-index entry of the stored table, among
\* its first total_devices entries, whose type is the one asked for, whose
\* sub-type is the one asked for unless 0 was asked, and, for PD only, whose
\* instance is the one asked for; it returns none when there is no such entry.
C13_FindDevice ==
    call.op = "is_dev_present" =>
        /\ ret = Returned(idx.k # 0, NoError)
        /\ (idx.k = 0 => \A k \in TableEntries : ~Satisfies(k))
        /\ (idx.k # 0 =>
               /\ idx.k \in TableEntries
               /\ Satisfies(idx.k)
               /\ \A k \in 1..(idx.k - 1) : ~Satisfies(k))

\* the part of C13 that holds: the same for a table within capacity
C13_FindDeviceWithinCapacity ==
    (call.op = "is_dev_present" /\ ~Overrun(dock_info)) =>
        /\ ret = Returned(idx.k # 0, NoError)
        /\ (idx.k = 0 => \A k \in TableEntries : ~Satisfies(k))
        /\ (idx.k # 0 =>
               /\ idx.k \in TableEntries
               /\ Satisfies(idx.k)
               /\ \A k \in 1..(idx.k - 1) : ~Satisfies(k))

\* a Thunderbolt entry of sub-type st is among the entries of the stored table
HasTbt(st) ==
    \E k \in TableEntries :
        LET e == DeviceAt(dock_info, NoPast, k)
        IN  e.device_type = DEV_TYPE_TBT /\ e.sub_type = st

\* the SKU of a K2 dock by the priority order of the sub-types
SkuOfTable ==
    IF HasTbt(TBT_SUBTYPE_BR) THEN K2_DOCK_SKU_TBT5
    ELSE IF HasTbt(TBT_SUBTYPE_GR) THEN K2_DOCK_SKU_TBT4
    ELSE K2_DOCK_SKU_DPALT

\* the transport operations of the last round of discovery
RoundReads ==
    LET IsRead(e) == e.ev # "sleep"
    IN  SelectSeq(io, IsRead)

\* C14: after a successful discovery of a K2 dock the SKU is a function of
\* the stored table alone: TBT5 if it holds a Barlow-Ridge entry, else TBT4 if
\* it holds a Goshen-Ridge entry, else DP-alt; the round issued the identity
\* and the topology read and nothing else.
C14_SkuFromTopology ==
    (Discovered /\ base_type = BASE_TYPE_K2) =>
        /\ base_sku = SkuOfTable
        /\ RoundReads = <<EvRead("GET_DOCK_DATA"), EvRead("GET_DOCK_INFO")>>

\* the part of C14 that holds: the same for a table within capacity
C14_SkuWithinCapacity ==
    (Discovered /\ base_type = BASE_TYPE_K2 /\ ~Overrun(dock_info)) =>
        /\ base_sku = SkuOfTable
        /\ RoundReads = <<EvRead("GET_DOCK_DATA"), EvRead("GET_DOCK_INFO")>>

(***************************************************************************)
(* Properties of the sub-device factory                                    *)
(***************************************************************************)
\* what a lookup of (device_type, sub_type, instance) reports when the
\* factory runs
Present(device_type, sub_type, instance) ==
    \E k \in 1..dock_info.total_devices :
        LET e == DeviceAt(dock_info, call.past, k)
        IN  /\ e.device_type = device_type
            /\ (sub_type = 0 \/ e.sub_type = sub_type)
            /\ (device_type # DEV_TYPE_PD \/ e.instance = instance)

\* the children of a dock in the order of the factory
ExpectedChildren ==
    LET Opt(present, name) == IF present THEN <<name>> ELSE <<>>
    IN  <<"package">>
        \o Opt(Present(DEV_TYPE_PD, PD_SUBTYPE_TI, PD_INSTANCE_UP5), "pd_up5")
        \o Opt(Present(DEV_TYPE_PD, PD_SUBTYPE_TI, PD_INSTANCE_UP15), "pd_up15")
        \o Opt(Present(DEV_TYPE_PD, PD_SUBTYPE_TI, PD_INSTANCE_UP17), "pd_up17")
        \o Opt(Present(DEV_TYPE_DP_MUX, 0, 0), "dpmux")
        \o Opt(Present(DEV_TYPE_WTPD, 0, 0), "wtpd")
        \o Opt(Present(DEV_TYPE_LAN, 0, 0), "ilan")

C16_PagesFullSize ==
    call.op = "write_firmware" =>
        \A p \in At("hid_write") :
            LET e == io[p]
                f == Framed(e.n)
                lo == e.m * PageSz
            IN  /\ Len(e.d) = PageSz
                /\ e.sz >= 1
                /\ e.sz = Min(PageSz, Len(f) - lo)
                /\ SubSeq(e.d, 1, e.sz) = SubSeq(f, lo + 1, lo + e.sz)
                /\ \A k \in (e.sz + 1)..PageSz : e.d[k] = 0

\* C16 witness: a last page that holds fewer bytes than a page was written
C16_Witness ==
    /\ call.op = "write_firmware"
    /\ \E p \in At("hid_write") : io[p].m >= 1 /\ io[p].sz < PageSz

\* C17: the first page of a chunk, once written, is followed at once by the
\* first-page delay of the device class, 75 s for the remote-management class
\* and 0 for every other; no other sleep lies between the pages of a chunk:
\* every sleep follows the first page or precedes the acknowledgment poll.
C17_FirstPageDelay ==
    call.op = "write_firmware" =>
        /\ \A p \in At("hid_write") :
              /\ p = Len(io) => (io[p].m > 0 \/ (ret.done /\ ~ret.ok))
              /\ (io[p].m = 0 /\ p < Len(io)) =>
                     /\ io[p + 1].ev = "sleep"
                     /\ io[p + 1].n = IF call.dev_type = DEV_TYPE_RMM THEN 75000 ELSE 0
                     /\ p + 2 <= Len(io) =>
                            \/ io[p + 2].ev = "hid_write" /\ io[p + 2].m = 1
                            \/ /\ io[p + 2].ev = "sleep" /\ p + 3 <= Len(io)
                               /\ io[p + 3].ev = "get_report"
              /\ (io[p].m > 0 /\ p < Len(io)) =>
                     \/ io[p + 1].ev = "hid_write" /\ io[p + 1].m = io[p].m + 1
                     \/ /\ io[p + 1].ev = "sleep" /\ p + 2 <= Len(io)
                        /\ io[p + 2].ev = "get_report"
        /\ \A q \in At("sleep") :
              \/ q > 1 /\ io[q - 1].ev = "hid_write" /\ io[q - 1].m = 0
              \/ q < Len(io) /\ io[q + 1].ev = "get_report"

\* C17 witness: a transfer to the remote-management device has written its
\* second page
C17_Witness ==
    /\ call.op = "write_firmware" /\ call.dev_type = DEV_TYPE_RMM
    /\ \E p \in At("hid_write") : io[p].m = 1

\* C18: a page is written at most once and a chunk is polled at most once; a
\* page write or a poll that fails ends the transfer with its error, and it is
\* the last operation of the transfer.
C18_NoRetry ==
    call.op = "write_firmware" =>
        /\ \A p, q \in At("hid_write") :
              (io[p].n = io[q].n /\ io[p].m = io[q].m) => p = q
        /\ \A p, q \in At("get_report") : io[p].n = io[q].n => p = q
        /\ \A p \in At("get_report") : io[p].m = -1 => p = Len(io)
        /\ call.in = "fail" =>
              /\ pc = "idle"
              /\ \/ /\ io[Len(io)].ev = "hid_write"
                    /\ ret = Returned(FALSE, Err("WRITE_IO"))
                 \/ /\ io[Len(io)].ev = "get_report" /\ io[Len(io)].m = -1
                    /\ ret = Returned(FALSE, Err("READ_IO"))

\* C18 witness: the write of a page of the second chunk failed
C18_Witness ==
    /\ call.op = "write_firmware" /\ call.in = "fail"
    /\ io[Len(io)].ev = "hid_write" /\ io[Len(io)].n = 1

(***************************************************************************)
(* Properties of the package commit and of the identity query              *)
(***************************************************************************)
\* C19: a package commit of a payload whose length is not the size of the
\* package version record fails with the invalid-data error and writes
\* nothing; a payload of that size is written once: command, length byte,
\* payload.
C19_CommitLength ==
    call.op = "commit_package" =>
        IF Len(call.fw) = 64
        THEN /\ io = <<EvWrite("SET_DOCK_PKG", <<64>> \o call.fw)>>
             /\ ret = IF call.in = "ok" THEN Returned(TRUE, NoError)
                       ELSE Returned(FALSE, Err(call.in))
        ELSE /\ io = <<>>
             /\ ret = Returned(FALSE, Err("INVALID_DATA"))

\* C19 witness: a payload one byte short was refused
C19_Witness ==
    /\ call.op = "commit_package" /\ Len(call.fw) = DockFWVersionSize - 1
    /\ ~ret.ok

\* C20: identity bytes that do not parse fail the identity query with the
\* parse error: the readiness check fails with it, and a discovery attempt
\* fails with it without a topology read.
C20_ParseFailureIsFatal ==
    /\ (call.op = "is_dock_ready4update" /\ call.in = "unparsable") =>
           ret = Returned(FALSE, Err("PARSE"))
    /\ (Discovering /\ call.data = "unparsable") =>
           /\ call.last = "PARSE"
           /\ call.info = ""
           /\ RoundReads = <<EvRead("GET_DOCK_DATA")>>

(***************************************************************************)
(* Ownership and the firmware transfer                                     *)
(***************************************************************************)
\* the page writes and the polls of the current call, in the order issued
HidWrites == SelectSeq(io, LAMBDA e : e.ev = "hid_write")

GetReports == SelectSeq(io, LAMBDA e : e.ev = "get_report")

\* C21: whenever the transfer engine has written a page, the ownership flag
\* is 'owned' and a readiness check has run since (the stored identity is no
\* longer the zeroed record of construction).
C21_PagesOnlyWhileOwned ==
    (call.op = "write_firmware" /\ At("hid_write") # {}) =>
        /\ dock_lock_state
        /\ dock_data.st # "zeroed"

\* C22: a set_ownership call sleeps 1000 ms and then issues exactly one
\* write of SET_MODIFY_LOCK with data length 2 and the lock word 0xFFFF for
\* lock, 0x0000 for unlock; it reads nothing, and the order is the same when
\* the write fails.
C22_OwnershipFrame ==
    call.op = "own_dock" =>
        /\ Len(io) = 2
        /\ io[1].ev = "sleep" /\ io[1].n = 1000
        /\ io[2].ev = "write" /\ io[2].cmd = "SET_MODIFY_LOCK"
        /\ io[2].d = (IF call.lock THEN <<2, 255, 255>> ELSE <<2, 0, 0>>)
        /\ io[2].sz = 3
        /\ At("read") = {}

\* C22 witness: a lock request whose write failed
C22_Witness ==
    /\ call.op = "own_dock" /\ call.lock
    /\ call.in = "WRITE"
    /\ ret.done /\ ~ret.ok
    /\ io[1].ev = "sleep"

\* C23: UpdateComplete and SendNextChunk have the same effect at every chunk:
\* after either, answered to a chunk that is not the last, the transfer goes
\* on with page 0 of the next chunk, and answered to the last chunk it ends
\* the transfer with success.
C23_AcceptedAckStep ==
    [][(pc = "ack" /\ call'.in = "ok"
        /\ io'[Len(io')].m \in {RESP_UPDATE_COMPLETE, RESP_SEND_NEXT_CHUNK}) =>
          IF idx.i + 1 < NumChunks
          THEN /\ pc' = "page"
               /\ ~ret'.done
               /\ idx'.i = idx.i + 1 /\ idx'.j = 0
          ELSE /\ pc' = "idle"
               /\ ret' = Returned(TRUE, NoError)]_vars

\* C23: a transfer of a payload the firmware object delivered returns success
\* exactly when no page write and no poll failed and every chunk was polled
\* with UpdateComplete or SendNextChunk.
C23_SuccessIffAllAccepted ==
    (call.op = "write_firmware" /\ ret.done /\ ret.err.code # "NOT_FOUND") =>
        (ret.ok <=>
            /\ call.in \in {"", "ok"}
            /\ Len(GetReports) = NumChunks
            /\ \A k \in 1..Len(GetReports) :
                  GetReports[k].m \in {RESP_UPDATE_COMPLETE, RESP_SEND_NEXT_CHUNK})

\* C23: both parts
C23_AcceptingAcks == C23_AcceptedAckStep /\ [] C23_SuccessIffAllAccepted

\* C23 witness: a transfer that succeeded with UpdateComplete answered to its
\* first chunk and SendNextChunk to its last
C23_Witness ==
    /\ TransferSucceeded
    /\ Len(GetReports) >= 2
    /\ GetReports[1].m = RESP_UPDATE_COMPLETE
    /\ GetReports[Len(GetReports)].m = RESP_SEND_NEXT_CHUNK

\* number of pages of chunk i
NumPages(i) == CeilDiv(Len(Framed(i)), PageSz)

\* C24: after a transfer that returned success, every page of every chunk was
\* written exactly once, chunks in increasing order and the pages of a chunk
\* in increasing order, and every chunk was polled exactly once; a transfer
\* of an empty payload returned success without any write, delay or poll.
C24_SuccessIsComplete ==
    TransferSucceeded =>
        /\ \A k \in 1..Len(HidWrites) :
              /\ HidWrites[k].n \in 0..(NumChunks - 1)
              /\ HidWrites[k].m \in 0..(NumPages(HidWrites[k].n) - 1)
        /\ \A i \in 0..(NumChunks - 1) : \A j \in 0..(NumPages(i) - 1) :
              Cardinality({k \in 1..Len(HidWrites) :
                              HidWrites[k].n = i /\ HidWrites[k].m = j}) = 1
        /\ \A k \in 1..(Len(HidWrites) - 1) :
              \/ HidWrites[k].n < HidWrites[k + 1].n
              \/ /\ HidWrites[k].n = HidWrites[k + 1].n
                 /\ HidWrites[k].m < HidWrites[k + 1].m
        /\ Len(GetReports) = NumChunks
        /\ \A k \in 1..Len(GetReports) : GetReports[k].n = k - 1
        /\ (Len(call.fw) = 0 => io = <<>>)

\* C24 witness: a transfer of an empty payload returned success
C24_Witness ==
    /\ TransferSucceeded
    /\ Len(call.fw) = 0
    /\ io = <<>>

(***************************************************************************)
(* A topology without devices                                              *)
(***************************************************************************)
\* a discovery has failed and the error of its last attempt is the one of a
\* topology without devices
EndedNotReady ==
    /\ Discovering
    /\ pc = "idle"
    /\ ret.done /\ ~ret.ok
    /\ ret.err.code = "SIGNATURE_INVALID"

\* what may be asked of the table: device type, sub-type, instance
AllTypes == DEV_TYPE_MAIN_EC..DEV_TYPE_WTPD

AllSubTypes == {0, TBT_SUBTYPE_TR, TBT_SUBTYPE_GR, TBT_SUBTYPE_BR}

AllInstances == {PD_INSTANCE_UP5, PD_INSTANCE_UP15, PD_INSTANCE_UP17}

\* C25: an attempt that reads a full-size topology with total_devices = 0
\* fails and has stored that topology, an inventory discovered before
\* included, and it reports the error of a topology without devices when the
\* identity was read; after it the table holds no device.
C25_AttemptOverwrites ==
    [][(pc = "query" /\ call'.info = "ok" /\ dock_info'.total_devices = 0) =>
          /\ call'.last # "ok"
          /\ (dock_data'.st = "parsed" => call'.last = "SIGNATURE_INVALID")
          /\ (pc' = "idle" => ret'.done /\ ~ret'.ok)]_vars

\* C25: an attempt that reported a topology without devices has left a table
\* of no devices, whatever was stored before.
C25_NotReadyStoresEmpty ==
    [][(pc = "query" /\ call'.last = "SIGNATURE_INVALID") =>
          /\ call'.info = "ok"
          /\ dock_info'.total_devices = 0]_vars

\* C25: after a discovery that ended in this error the lookup finds no entry
\* and every getter returns 0, for every device asked for.
C25_InventoryGone ==
    EndedNotReady =>
        /\ dock_info.total_devices = 0
        /\ \A past \in PastChoices, t \in AllTypes, st \in AllSubTypes,
              inst \in AllInstances :
              /\ DevEntry(dock_info, past, t, st, inst) = 0
              /\ VersionOf(dock_info, past, t, st, inst) = 0

\* C25: a lookup or a getter called right after such a discovery finds none
\* and returns 0.
C25_CallsFindNone ==
    [][(EndedNotReady
        /\ call'.op \in (DOMAIN Getters) \cup {"is_dev_present"}) =>
          /\ idx'.k = 0
          /\ (call'.op = "is_dev_present" => ~ret'.ok)
          /\ (call'.op \in DOMAIN Getters => call'.status = 0)]_vars

\* C25: all parts
C25_NotReadyDropsInventory ==
    /\ C25_AttemptOverwrites
    /\ C25_NotReadyStoresEmpty
    /\ [] C25_InventoryGone
    /\ C25_CallsFindNone

\* C25 witness: after a setup that discovered devices and created children, a
\* reload ended in the error of a topology without devices, the table read
\* still carrying an entry
C25_Witness ==
    /\ EndedNotReady
    /\ call.op = "reload"
    /\ done_setup = "ok"
    /\ Len(children) >= 2
    /\ dock_info.total_devices = 0
    /\ Len(dock_info.devices) >= 1

====
